---- MODULE Spec2Model ----
(***************************************************************************)
(* Model of backend/.extras/compose/locust/locustfile.py: two load-test    *)
(* user profiles (WAFSecurityTester, RateLimitTester) whose callbacks      *)
(* issue one HTTP request and mark the response success or failure from    *)
(* its status code.  A callback sends its request, blocks in the client    *)
(* call until the answer arrives, and then marks the response; other       *)
(* sessions run, and the engine may stop the session, while it waits.      *)
(***************************************************************************)
EXTENDS Naturals, Sequences, FiniteSets, TLC

VARIABLES
    profile,    \* class of each simulated user, fixed at creation
    pc,         \* per session: "spawned" (before on_start), "running" (about to
                \* pick a task), "in_flight" (blocked in the client call),
                \* "waiting" (in wait_time after a task), "stopped"
    inflight,   \* per session: the request sent and not yet evaluated, or None
    log,        \* per session: the exchanges its callbacks completed
    now,        \* clock of the timed run, in ticks
    recent,     \* timed run: times of the session's requests the server remembers
    tally,      \* timed run: failures recorded, and what the server counted
    stubOrder   \* timed run: which rule of the stub server is applied first

vars == <<profile, pc, inflight, log, now, recent, tally, stubOrder>>

(***************************************************************************)
(* Bounds and inputs.                                                      *)
(***************************************************************************)
\* Most requests the sessions send before the engine ends the run.
MaxRequests == 4

\* Longest time, in ticks, an answer takes in the timed run.
MaxLatencyTicks == 1

\* Response status codes the server may answer with.
StatusCodes == {200, 403, 429, 500}

Sessions == {"A", "B"}

Profiles == {"WAFSecurityTester", "RateLimitTester"}

(***************************************************************************)
(* Text.  A message is the sequence of its characters; an integer is       *)
(* formatted in decimal, as an f-string does.                              *)
(***************************************************************************)
Digit(d) == <<"0", "1", "2", "3", "4", "5", "6", "7", "8", "9">>[d + 1]

RECURSIVE Str(_)
Str(n) == IF n < 10 THEN <<Digit(n)>> ELSE Str(n \div 10) \o <<Digit(n % 10)>>

\* Python's `sub in text` for strings.
Contains(text, sub) ==
    \E i \in 1..(Len(text) + 1) :
        /\ i + Len(sub) - 1 <= Len(text)
        /\ SubSeq(text, i, i + Len(sub) - 1) = sub

LOGIN_FAILED ==
    <<"C", "o", "u", "l", "d", " ", "n", "o", "t", " ", "l", "o", "g", " ", "i", "n">>
RATE_LIMIT_HIT ==
    <<"R", "a", "t", "e", " ", "L", "i", "m", "i", "t", " ", "H", "i", "t", " ",
      "(", "4", "2", "9", ")">>
WAF_BYPASSED ==
    <<"W", "A", "F", " ", "b", "y", "p", "a", "s", "s", "e", "d", "!", " ",
      "S", "t", "a", "t", "u", "s", ":", " ">>
LIMIT_NOT_REACHED ==
    <<"L", "i", "m", "i", "t", " ", "n", "o", "c", "h", " ", "n", "i", "c", "h", "t", " ",
      "e", "r", "r", "e", "i", "c", "h", "t", " ", "(", "2", "0", "0", " ", "O", "K", ")">>
UNEXPECTED_STATUS ==
    <<"U", "n", "e", "r", "w", "a", "r", "t", "e", "t", "e", "r", " ",
      "S", "t", "a", "t", "u", "s", ":", " ">>
LOGIN_OK_LINE ==
    <<"L", "o", "g", "i", "n", " ", "e", "r", "f", "o", "l", "g", "r", "e", "i", "c", "h">>
LOGIN_FAILED_LINE ==
    <<"L", "o", "g", "i", "n", " ", "f", "e", "h", "l", "g", "e", "s", "c", "h", "l", "a",
      "g", "e", "n", ":", " ">>

(***************************************************************************)
(* The response handed to a callback by `with client.get/post(...,         *)
(* catch_response=True) as response`.  manual_result is what the callback  *)
(* set last, error the failure's message, marks how many times the         *)
(* callback called success() or failure().                                 *)
(***************************************************************************)
Response(status) ==
    [status_code |-> status, manual_result |-> "none", error |-> <<>>, marks |-> 0]

success(r) ==
    [r EXCEPT !.manual_result = "success", !.error = <<>>, !.marks = @ + 1]

failure(r, message) ==
    [r EXCEPT !.manual_result = "failure", !.error = message, !.marks = @ + 1]

(***************************************************************************)
(* The requests.                                                           *)
(***************************************************************************)
XSS_PAYLOAD == "<script>alert('WAF_TEST')</script>"
SQL_PAYLOAD == "1' OR '1'='1"

Request(op) ==
    CASE op = "login" ->
            [method |-> "POST", path |-> "/api/auth/login/ldap", param |-> "",
             value |-> "", json |-> <<"u001", "p">>]
      [] op = "test_xss_attack" ->
            [method |-> "GET", path |-> "/", param |-> "search",
             value |-> XSS_PAYLOAD, json |-> <<>>]
      [] op = "test_sql_injection" ->
            [method |-> "GET", path |-> "/", param |-> "id",
             value |-> SQL_PAYLOAD, json |-> <<>>]
      [] OTHER ->
            [method |-> "GET", path |-> "/", param |-> "",
             value |-> "", json |-> <<>>]

(***************************************************************************)
(* The callbacks: what each does with the response it is given.            *)
(***************************************************************************)
\* Faulty variant: any status below 500 counts as a successful login.
login_below_500(r) ==
    IF r.status_code < 500
    THEN success(r)
    ELSE failure(r, LOGIN_FAILED)

login(r) ==
    IF r.status_code = 200
    THEN success(r)
    ELSE failure(r, LOGIN_FAILED)

\* The line login prints on the console.
login_print(r) ==
    IF r.status_code = 200
    THEN LOGIN_OK_LINE
    ELSE LOGIN_FAILED_LINE \o Str(r.status_code)

\* Faulty variant: a closing else marks every other status a failure.
test_regular_traffic_else(r) ==
    IF r.status_code = 200
    THEN success(r)
    ELSE IF r.status_code = 429
         THEN failure(r, RATE_LIMIT_HIT)
         ELSE failure(r, UNEXPECTED_STATUS \o Str(r.status_code))

\* Faulty variant: the 429 branch is missing.
test_regular_traffic_only_200(r) ==
    IF r.status_code = 200
    THEN success(r)
    ELSE r

test_regular_traffic(r) ==
    IF r.status_code = 200
    THEN success(r)
    ELSE IF r.status_code = 429
         THEN failure(r, RATE_LIMIT_HIT)
         ELSE r

\* Faulty variant: a rate-limited probe counts as blocked too.
test_xss_attack_429_ok(r) ==
    IF r.status_code \in {403, 429}
    THEN success(r)
    ELSE failure(r, WAF_BYPASSED \o Str(r.status_code))

test_xss_attack(r) ==
    IF r.status_code = 403
    THEN success(r)
    ELSE failure(r, WAF_BYPASSED \o Str(r.status_code))

test_sql_injection(r) ==
    IF r.status_code = 403
    THEN success(r)
    ELSE failure(r, WAF_BYPASSED \o Str(r.status_code))

\* Faulty variant: 200 is treated as in normal monitoring.
hammering_200_ok(r) ==
    IF r.status_code \in {429, 200}
    THEN success(r)
    ELSE failure(r, UNEXPECTED_STATUS \o Str(r.status_code))

\* Faulty variant: the closing else is missing.
hammering_no_else(r) ==
    IF r.status_code = 429
    THEN success(r)
    ELSE IF r.status_code = 200
         THEN failure(r, LIMIT_NOT_REACHED)
         ELSE r

hammering(r) ==
    IF r.status_code = 429
    THEN success(r)
    ELSE IF r.status_code = 200
         THEN failure(r, LIMIT_NOT_REACHED)
         ELSE failure(r, UNEXPECTED_STATUS \o Str(r.status_code))

Callback(op, r) ==
    CASE op = "login" -> login(r)
      [] op = "test_regular_traffic" -> test_regular_traffic(r)
      [] op = "test_xss_attack" -> test_xss_attack(r)
      [] op = "test_sql_injection" -> test_sql_injection(r)
      [] op = "hammering" -> hammering(r)

\* One request and the evaluation of its response.
Exchange(op, status) ==
    [op |-> op,
     request |-> Request(op),
     response |-> Callback(op, Response(status)),
     console |-> IF op = "login" THEN login_print(Response(status)) ELSE <<>>]

\* Faulty variant: a failed request is sent once more by the same execution.
Reissue_on_failure(op, r) == r.manual_result = "failure"

\* Whether the execution of op sends its request again after evaluating r:
\* no callback loops or retries.
Reissue(op, r) == FALSE

(***************************************************************************)
(* The task sets (@task weights) and what the engine may run.              *)
(***************************************************************************)
Weight(p, op) ==
    IF p = "WAFSecurityTester"
    THEN CASE op = "test_regular_traffic" -> 10
           [] op = "test_xss_attack" -> 2
           [] op = "test_sql_injection" -> 2
           [] OTHER -> 0
    ELSE CASE op = "hammering" -> 1
           [] OTHER -> 0

Ops == {"login", "test_regular_traffic", "test_xss_attack", "test_sql_injection",
        "hammering"}

Tasks(p) == {op \in Ops : Weight(p, op) > 0}

None == [op |-> "none"]

\* The request a callback has sent while it blocks in the client call.
InFlight(op) == [op |-> op, request |-> Request(op)]

Count(b) == IF b THEN 1 ELSE 0

\* Requests session s has sent, evaluated or not.
Sent(s) == Len(log[s]) + Count(inflight[s] # None)

RECURSIVE SentBy(_)
SentBy(S) ==
    IF S = {}
    THEN 0
    ELSE LET s == CHOOSE x \in S : TRUE IN Sent(s) + SentBy(S \ {s})

TotalSent == SentBy(Sessions)

\* Faulty variant: tasks run only after a successful login.
Runnable_logged_in(s, op) ==
    /\ pc[s] = "running"
    /\ op \in Tasks(profile[s])
    /\ profile[s] = "WAFSecurityTester" =>
          log[s][1].response.manual_result = "success"

\* The engine picks among the session's tasks whatever earlier verdicts were.
Runnable(s, op) ==
    /\ pc[s] = "running"
    /\ op \in Tasks(profile[s])

\* Where a session goes when its callback returns: login returns into
\* on_start, after which the first task is picked; a task is followed by
\* wait_time.
AfterReturn(op) == IF op = "login" THEN "running" ELSE "waiting"

(***************************************************************************)
(* The untimed run: the server may answer any status.                      *)
(***************************************************************************)
NoTally == [bypass |-> 0, rateLimited |-> 0, probeOver |-> 0, getOver |-> 0,
            crossed |-> FALSE]

Init ==
    /\ profile = [s \in Sessions |->
                    IF s = "A" THEN "WAFSecurityTester" ELSE "RateLimitTester"]
    /\ pc = [s \in Sessions |-> "spawned"]
    /\ inflight = [s \in Sessions |-> None]
    /\ log = [s \in Sessions |-> <<>>]
    /\ now = 0
    /\ recent = <<>>
    /\ tally = NoTally
    /\ stubOrder = "waf_first"

\* Faulty variant: the session starts without logging in.
on_start_no_login(s) ==
    /\ pc[s] = "spawned"
    /\ pc' = [pc EXCEPT ![s] = "running"]
    /\ UNCHANGED <<profile, inflight, log, now, recent, tally, stubOrder>>

\* on_start: WAFSecurityTester calls login, which sends its request and
\* blocks; RateLimitTester defines no on_start.
on_start(s) ==
    /\ pc[s] = "spawned"
    /\ IF profile[s] = "WAFSecurityTester"
       THEN /\ TotalSent < MaxRequests
            /\ inflight' = [inflight EXCEPT ![s] = InFlight("login")]
            /\ pc' = [pc EXCEPT ![s] = "in_flight"]
       ELSE /\ inflight' = inflight
            /\ pc' = [pc EXCEPT ![s] = "running"]
    /\ UNCHANGED <<profile, log, now, recent, tally, stubOrder>>

\* A task is picked and sends its request: self.client.get(...) blocks.
Send(s, op) ==
    /\ Runnable(s, op)
    /\ TotalSent < MaxRequests
    /\ inflight' = [inflight EXCEPT ![s] = InFlight(op)]
    /\ pc' = [pc EXCEPT ![s] = "in_flight"]
    /\ UNCHANGED <<profile, log, now, recent, tally, stubOrder>>

\* The answer arrives: the with-block runs, marks the response, and the
\* callback returns.
Receive(s) ==
    /\ pc[s] = "in_flight"
    /\ \E status \in StatusCodes :
          LET e == Exchange(inflight[s].op, status) IN
          /\ log' = [log EXCEPT ![s] = Append(@, e)]
          /\ IF Reissue(e.op, e.response)
             THEN UNCHANGED <<inflight, pc>>
             ELSE /\ inflight' = [inflight EXCEPT ![s] = None]
                  /\ pc' = [pc EXCEPT ![s] = AfterReturn(e.op)]
    /\ UNCHANGED <<profile, now, recent, tally, stubOrder>>

\* wait_time between two tasks; the untimed run keeps no clock.
wait_time(s) ==
    /\ pc[s] = "waiting"
    /\ pc' = [pc EXCEPT ![s] = "running"]
    /\ UNCHANGED <<profile, inflight, log, now, recent, tally, stubOrder>>

\* The engine ends the run: every session is stopped where it is, and a
\* request in flight is left unevaluated.
Stop ==
    /\ \E s \in Sessions : pc[s] # "stopped"
    /\ pc' = [s \in Sessions |-> "stopped"]
    /\ UNCHANGED <<profile, inflight, log, now, recent, tally, stubOrder>>

\* The steps session s takes by itself.
Step(s) ==
    \/ on_start(s)
    \/ \E op \in Ops : Send(s, op)
    \/ Receive(s)
    \/ wait_time(s)

Next == (\E s \in Sessions : Step(s)) \/ Stop

Spec == Init /\ [][Next]_vars

\* The engine keeps scheduling every session that can take a step, and the
\* server answers every request; nothing obliges the engine to end the run.
FairSpec == Spec /\ \A s \in Sessions : WF_vars(Step(s))

(***************************************************************************)
(* The timed run of the end-to-end scenario: the WAFSecurityTester session *)
(* against the stub server, one tick being 0.1 s.  The run keeps tallies,  *)
(* not the history.                                                        *)
(***************************************************************************)
\* wait_time = between(0.1, 0.5)
WaitMinTicks == 1
WaitMaxTicks == 5

\* The stub answers 429 after RateLimit requests within WindowTicks; the run
\* lasts RunTicks.
RateLimit == 6
WindowTicks == 10
RunTicks == 20

StubOrders == {"waf_first", "limit_first"}

\* The requests of the last second that the stub still counts at time t.
Remembered(t) == SelectSeq(recent, LAMBDA at : t - at < WindowTicks)

\* The request arriving at t comes after RateLimit requests within the window.
OverLimit(t) == Len(Remembered(t)) >= RateLimit

\* The stub's answer.  The scenario does not say which rule wins for a probe
\* that arrives over the limit: stubOrder is either order.
StubStatus(req, over) ==
    IF req.method = "POST"
    THEN 200
    ELSE IF req.param \in {"search", "id"}
         THEN IF over /\ stubOrder = "limit_first" THEN 429 ELSE 403
         ELSE IF over THEN 429 ELSE 200

\* The stub's counts once the request of op has arrived.
Arrived(op, over) ==
    [tally EXCEPT
       !.probeOver = @ + Count(op \in {"test_xss_attack", "test_sql_injection"} /\ over),
       !.getOver = @ + Count(op = "test_regular_traffic" /\ over),
       !.crossed = @ \/ over]

\* The failures recorded once the callback of op has evaluated status.
Tallied(op, status) ==
    LET r == Callback(op, Response(status)) IN
    [tally EXCEPT
       !.bypass = @ + Count(op \in {"test_xss_attack", "test_sql_injection"}
                            /\ r.manual_result = "failure"),
       !.rateLimited = @ + Count(op = "test_regular_traffic"
                                 /\ r.manual_result = "failure")]

\* The request of op reaches the stub at once; its answer is on the way.
TimedSend(s, op) ==
    LET over == OverLimit(now) IN
    /\ tally' = Arrived(op, over)
    /\ recent' = Append(Remembered(now), now)
    /\ inflight' = [inflight EXCEPT ![s] =
                       [op |-> op, request |-> Request(op), over |-> over,
                        answer |-> StubStatus(Request(op), over)]]
    /\ pc' = [pc EXCEPT ![s] = "in_flight"]

TimedInit ==
    /\ profile = [s \in Sessions |->
                    IF s = "A" THEN "WAFSecurityTester" ELSE "RateLimitTester"]
    /\ pc = [s \in Sessions |-> IF s = "A" THEN "spawned" ELSE "stopped"]
    /\ inflight = [s \in Sessions |-> None]
    /\ log = [s \in Sessions |-> <<>>]
    /\ now = 0
    /\ recent = <<>>
    /\ tally = NoTally
    /\ stubOrder \in StubOrders

Timed_on_start(s) ==
    /\ pc[s] = "spawned"
    /\ profile[s] = "WAFSecurityTester"
    /\ TimedSend(s, "login")
    /\ UNCHANGED <<profile, log, now, stubOrder>>

Timed_Send(s, op) ==
    /\ Runnable(s, op)
    /\ now < RunTicks
    /\ TimedSend(s, op)
    /\ UNCHANGED <<profile, log, now, stubOrder>>

\* The answer arrives after some time and is evaluated, unless the run ends
\* first: the session is then stopped while it waits.
Timed_Receive(s) ==
    /\ pc[s] = "in_flight"
    /\ \E d \in 0..MaxLatencyTicks :
          /\ now' = now + d
          /\ IF now' >= RunTicks
             THEN /\ pc' = [pc EXCEPT ![s] = "stopped"]
                  /\ UNCHANGED <<inflight, tally>>
             ELSE /\ tally' = Tallied(inflight[s].op, inflight[s].answer)
                  /\ inflight' = [inflight EXCEPT ![s] = None]
                  /\ pc' = [pc EXCEPT ![s] = AfterReturn(inflight[s].op)]
    /\ UNCHANGED <<profile, log, recent, stubOrder>>

Timed_wait_time(s) ==
    /\ pc[s] = "waiting"
    /\ \E d \in WaitMinTicks..WaitMaxTicks : now' = now + d
    /\ pc' = [pc EXCEPT ![s] = IF now' >= RunTicks THEN "stopped" ELSE "running"]
    /\ UNCHANGED <<profile, inflight, log, recent, tally, stubOrder>>

TimedNext ==
    \E s \in Sessions :
       \/ Timed_on_start(s)
       \/ \E op \in Ops : Timed_Send(s, op)
       \/ Timed_Receive(s)
       \/ Timed_wait_time(s)

TimedSpec == TimedInit /\ [][TimedNext]_vars

(***************************************************************************)
(* Properties of the untimed run.                                          *)
(***************************************************************************)
\* The evaluated exchanges of all sessions.
Entries == UNION {{log[s][i] : i \in 1..Len(log[s])} : s \in Sessions}

EntriesOf(ops) == {e \in Entries : e.op \in ops}

Status(e) == e.response.status_code
Verdict(e) == e.response.manual_result
Message(e) == e.response.error

Probes == {"test_xss_attack", "test_sql_injection"}

\* C1: an XSS or SQL-injection probe is marked success exactly when the status
\* is 403, any other status is marked failure with a message containing the
\* status code, and the two probes agree on every status.
C1_ProbeVerdict ==
    /\ \A e \in EntriesOf(Probes) :
          /\ e.request.method = "GET"
          /\ e.request.param = (IF e.op = "test_xss_attack" THEN "search" ELSE "id")
          /\ Verdict(e) = "success" <=> Status(e) = 403
          /\ Status(e) # 403 =>
                /\ Verdict(e) = "failure"
                /\ Contains(Message(e), Str(Status(e)))
    /\ \A e \in EntriesOf({"test_xss_attack"}) :
          \A f \in EntriesOf({"test_sql_injection"}) :
             Status(e) = Status(f) =>
                /\ Verdict(e) = Verdict(f)
                /\ Message(e) = Message(f)

C1_Witness ==
    /\ \E e \in EntriesOf({"test_xss_attack"}) :
          \E f \in EntriesOf({"test_sql_injection"}) :
             Status(e) = 200 /\ Status(f) = 200
    /\ \E e \in EntriesOf(Probes) : Status(e) = 403

\* C2: the flood task marks 429 success, 200 failure with a message containing
\* "200", and every other status failure with a message containing that status.
C2_FloodVerdict ==
    \A e \in EntriesOf({"hammering"}) :
       /\ Verdict(e) = "success" <=> Status(e) = 429
       /\ Status(e) # 429 =>
             /\ Verdict(e) = "failure"
             /\ Contains(Message(e), Str(Status(e)))
       /\ Status(e) = 200 => Contains(Message(e), <<"2", "0", "0">>)

C2_Witness ==
    /\ \E e \in EntriesOf({"hammering"}) : Status(e) = 429
    /\ \E e \in EntriesOf({"hammering"}) : Status(e) = 200
    /\ \E e \in EntriesOf({"hammering"}) : Status(e) = 500

\* C3: the normal GET marks 200 success, 429 failure with a message containing
\* "429", and for any other status calls neither success() nor failure().
C3_RegularVerdict ==
    \A e \in EntriesOf({"test_regular_traffic"}) :
       /\ Status(e) = 200 => Verdict(e) = "success"
       /\ Status(e) = 429 =>
             /\ Verdict(e) = "failure"
             /\ Contains(Message(e), <<"4", "2", "9">>)
       /\ Status(e) \notin {200, 429} =>
             /\ Verdict(e) = "none"
             /\ e.response.marks = 0

C3_Witness ==
    /\ \E e \in EntriesOf({"test_regular_traffic"}) : Status(e) = 200
    /\ \E e \in EntriesOf({"test_regular_traffic"}) : Status(e) = 429
    /\ \E e \in EntriesOf({"test_regular_traffic"}) : Status(e) = 500

\* C4: the login request is POST /api/auth/login/ldap with u001/p; 200 is marked
\* success with no failure message, every other status is marked failure.
C4_LoginVerdict ==
    \A e \in EntriesOf({"login"}) :
       /\ e.request.method = "POST"
       /\ e.request.path = "/api/auth/login/ldap"
       /\ e.request.json = <<"u001", "p">>
       /\ Verdict(e) = "success" <=> Status(e) = 200
       /\ Status(e) = 200 => Message(e) = <<>>
       /\ Status(e) # 200 => Verdict(e) = "failure"

C4_Witness ==
    /\ \E e \in EntriesOf({"login"}) : Status(e) = 403 /\ Verdict(e) = "failure"
    /\ pc["A"] = "running"

\* C5: every failure recorded by any operation, login included, carries a
\* message containing the observed status code.  login breaks it: it calls
\* failure("Could not log in") and only prints the status code.
C5_Original ==
    \A e \in Entries :
       Verdict(e) = "failure" => Contains(Message(e), Str(Status(e)))

\* C6 as stated: every evaluated request has exactly one of success or failure
\* assigned by its callback, whatever the status.
C6_Original ==
    \A e \in Entries :
       /\ e.response.marks = 1
       /\ Verdict(e) \in {"success", "failure"}

\* C6 amended: login, the two probes and the flood GET assign exactly one of
\* success or failure for every status; the normal GET assigns exactly one
\* when the status is 200 or 429 and none otherwise; no callback assigns two.
C6_VerdictRecorded ==
    \A e \in Entries :
       /\ e.response.marks <= 1
       /\ IF e.op = "test_regular_traffic" /\ Status(e) \notin {200, 429}
          THEN e.response.marks = 0 /\ Verdict(e) = "none"
          ELSE e.response.marks = 1 /\ Verdict(e) \in {"success", "failure"}

C6_Witness ==
    /\ \E e \in EntriesOf({"test_regular_traffic"}) : Verdict(e) = "none"
    /\ \E e \in EntriesOf({"test_regular_traffic"}) : Verdict(e) # "none"
    /\ \E e \in EntriesOf({"hammering"}) : Status(e) = 500

\* The requests session s has sent, in order, evaluated or not.
SentRequests(s) ==
    [i \in 1..Len(log[s]) |-> log[s][i].request]
       \o (IF inflight[s] # None THEN <<inflight[s].request>> ELSE <<>>)

IsLoginRequest(req) == req.path = "/api/auth/login/ldap"

\* C7: a WAFSecurityTester session sends the login request exactly once, as
\* its first request and before any task request; no task sends a login
\* request; a RateLimitTester session never sends one.
C7_LoginOnce ==
    \A s \in Sessions :
       LET reqs == SentRequests(s) IN
       /\ profile[s] = "RateLimitTester" =>
             \A i \in 1..Len(reqs) : ~IsLoginRequest(reqs[i])
       /\ profile[s] = "WAFSecurityTester" =>
             /\ pc[s] = "spawned" => reqs = <<>>
             /\ pc[s] \notin {"spawned", "stopped"} => Len(reqs) >= 1
             /\ Len(reqs) >= 1 => IsLoginRequest(reqs[1])
             /\ \A i \in 2..Len(reqs) : ~IsLoginRequest(reqs[i])

C7_Witness ==
    /\ Len(log["A"]) >= 2
    /\ Verdict(log["A"][1]) = "failure"
    /\ inflight["A"] # None
    /\ Len(log["B"]) >= 1

C9_NoRetry ==
    [][\A s \in Sessions :
          /\ Sent(s)' \in {Sent(s), Sent(s) + 1}
          /\ SubSeq(log'[s], 1, Len(log[s])) = log[s]
          /\ pc[s] = "in_flight" => Sent(s)' = Sent(s)
          /\ (pc[s] = "in_flight" /\ pc'[s] # "stopped" /\ log'[s] # log[s]) =>
                /\ pc'[s] # "in_flight"
                /\ inflight'[s] = None
                /\ Len(log'[s]) = Len(log[s]) + 1
          /\ (pc[s] = "running" /\ pc'[s] \notin {"running", "stopped"}) =>
                /\ pc'[s] = "in_flight"
                /\ Sent(s)' = Sent(s) + 1
          /\ \A i \in 1..Len(log'[s]) : log'[s][i].response.marks <= 1]_vars

C9_Witness ==
    /\ Len(log["A"]) >= 3
    /\ Verdict(log["A"][2]) = "failure"
    /\ log["A"][3].op = log["A"][2].op
    /\ Status(log["A"][3]) # Status(log["A"][2])

(***************************************************************************)
(* Properties of the timed run.                                            *)
(***************************************************************************)
\* The request of the session that is sent and not evaluated, if it is of op
\* kind ops and arrived over the limit.
PendingOver(ops) ==
    Count(/\ inflight["A"] # None
          /\ inflight["A"].op \in ops
          /\ inflight["A"].over)

\* C10 as stated: over the 2-second run no probe records a WAF-bypass failure,
\* and if the session's request volume crossed the threshold at least one
\* rate-limit failure has been recorded by the end of the run.
C10_Original ==
    pc["A"] = "stopped" =>
       /\ tally.bypass = 0
       /\ tally.crossed => tally.rateLimited >= 1

\* C10 amended: a probe records a WAF-bypass failure exactly when the stub
\* answers it 429 instead of 403 (never, if the stub applies its 403 rule
\* first) and the answer is evaluated before the run ends; a rate-limit
\* failure is recorded for exactly the normal GETs that arrive after 6
\* requests within one second and whose answer is evaluated before the run
\* ends, so one is recorded once a normal GET, not merely any request,
\* crosses the threshold and is answered in time.
C10_EndToEnd ==
    /\ tally.rateLimited + PendingOver({"test_regular_traffic"}) = tally.getOver
    /\ stubOrder = "waf_first" => tally.bypass = 0
    /\ stubOrder = "limit_first" => tally.bypass + PendingOver(Probes) = tally.probeOver
    /\ tally.crossed <=> tally.probeOver + tally.getOver > 0

C10_Witness ==
    /\ pc["A"] = "stopped"
    /\ tally.rateLimited >= 1
    /\ tally.probeOver >= 1
    /\ PendingOver({"test_regular_traffic"}) = 1

====
